---- MODULE Spec2Model ----
(***************************************************************************)
(* GitHubSentinel: the LLM facade (src/src/llm.py) and the Gradio request  *)
(* handlers that drive it (src/src/gradio_server.py).                      *)
(*                                                                         *)
(* Python strings that the code inspects are modelled by what the code     *)
(* does with them:                                                         *)
(*   - config.llm_model_type is a tuple of characters, because __init__    *)
(*     lowercases it character by character;                               *)
(*   - prompts and user content are tuples of text fragments, because      *)
(*     generate_report concatenates them and searches user_content for     *)
(*     the three section labels.  The Chinese literals of the source are   *)
(*     written as ASCII fragments; the comment at each gives the original. *)
(* JSON values and Python exceptions are tagged records.                   *)
(***************************************************************************)
EXTENDS Naturals, Sequences, FiniteSets, TLC

VARIABLES
    config,   \* the Config object: one object, shared by every caller
    args,     \* per caller: the arguments the Gradio handler was invoked with
    pc,       \* per caller: the statement it executes next
    llm,      \* per caller: the LLM instance it holds, or NoLLM
    ncalls,   \* per caller: generate_report calls completed on its instance
    input,    \* per caller: the arguments of its last generate_report call
    trace,    \* per caller: the events of its last LLM operation, in order
    result    \* per caller: how its last LLM operation ended

vars == <<config, args, pc, llm, ncalls, input, trace, result>>

(***************************************************************************)
(* Bounds of the model.                                                    *)
(***************************************************************************)
\* generate_report calls the script caller makes on one instance
MaxCalls == 2
\* completion choices in a hosted response
MaxChoices == 2

(***************************************************************************)
(* Python values.                                                          *)
(***************************************************************************)
JNull == [t |-> "null"]
None == JNull
JStr(s) == [t |-> "str", s |-> s]
JNum(n) == [t |-> "num", n |-> n]
JList == [t |-> "list"]
JDict(f) == [t |-> "dict", f |-> f]
EmptyDict == JDict([k \in {} |-> JNull])

Exc(type, msg) == [t |-> "exc", type |-> type, msg |-> msg]

\* Python truthiness of a JSON value, as `if message_content:` tests it
Truthy(v) ==
    CASE v.t = "null" -> FALSE
      [] v.t = "str"  -> v.s # ""
      [] v.t = "num"  -> v.n # 0
      [] v.t = "list" -> FALSE
      [] v.t = "dict" -> DOMAIN v.f # {}

Ok(v) == [ok |-> TRUE, v |-> v]
Raised(e) == [ok |-> FALSE, v |-> e]

\* d.get(key, default): only a dict has the method
DictGet(d, key, default) ==
    IF d.t = "dict"
    THEN Ok(IF key \in DOMAIN d.f THEN d.f[key] ELSE default)
    ELSE Raised(Exc("AttributeError", "get"))

(***************************************************************************)
(* str.lower()                                                             *)
(***************************************************************************)
LowerChar(c) ==
    CASE c = "O" -> "o" [] c = "P" -> "p" [] c = "E" -> "e" [] c = "N" -> "n"
      [] c = "A" -> "a" [] c = "I" -> "i" [] c = "L" -> "l" [] c = "M" -> "m"
      [] c = "G" -> "g"
      [] OTHER -> c

Lower(s) == [i \in DOMAIN s |-> LowerChar(s[i])]

openai == <<"o", "p", "e", "n", "a", "i">>
ollama == <<"o", "l", "l", "a", "m", "a">>

OpenAI == <<"O", "p", "e", "n", "A", "I">>
OLLAMA == <<"O", "L", "L", "A", "M", "A">>

\* strings config.llm_model_type may hold
KindStrings ==
    { openai, ollama, OpenAI, OLLAMA,
      <<"g", "e", "m", "i", "n", "i">>,
      <<"o", "p", "e", "n", "a", "i", " ">>,
      << >> }

ModelNames == {"gpt-4o", "gpt-4o-mini", "llama3.1"}
ApiUrl == "http://localhost:11434/api/chat"

NoLLM == [model |-> << >>, client |-> FALSE, api_url |-> "", live |-> FALSE]
NoResult == [kind |-> "none"]
Returned(v) == [kind |-> "return", value |-> v]
Raise(e) == [kind |-> "raise", value |-> e]

(***************************************************************************)
(* Events of one LLM operation, in the order the code produces them.       *)
(***************************************************************************)
LogError == [ev |-> "LOG.error"]
LogInfo == [ev |-> "LOG.info"]
LogDebug == [ev |-> "LOG.debug"]

IsRequest(e) == e.ev = "request"
Requests(tr) == SelectSeq(tr, IsRequest)
IsErrorLog(e) == e.ev = "LOG.error"
ErrorLogs(tr) == SelectSeq(tr, IsErrorLog)

(***************************************************************************)
(* LLM.__init__                                                            *)
(***************************************************************************)
\* OpenAI(): returns a client, or raises (no API key configured)
ClientOutcomes == {"client", "OpenAIError"}

UnsupportedType == Exc("ValueError", "unsupported model type")

Instance(model, client, api_url) ==
    [model |-> model, client |-> client, api_url |-> api_url, live |-> TRUE]

ModelOf_exact(type) == type

\* config.llm_model_type.lower()
ModelOf(type) == Lower(type)

Unsupported_kept(model) ==
    [llm |-> Instance(model, FALSE, ""), trace |-> << >>,
     result |-> Returned(None)]

\* the else branch: LOG.error(...); raise ValueError(...)
Unsupported(model) ==
    [llm |-> NoLLM, trace |-> <<LogError>>, result |-> Raise(UnsupportedType)]

\* The instance (NoLLM when the constructor raises), the events and the
\* outcome of LLM(cfg), given what OpenAI() does.
LLM_init(cfg, client) ==
    IF cfg.llm_model_type.t # "str"
    THEN [llm |-> NoLLM, trace |-> << >>,
          result |-> Raise(Exc("AttributeError", "lower"))]
    ELSE LET model == ModelOf(cfg.llm_model_type.s) IN
         IF model = openai
         THEN IF client = "client"
              THEN [llm |-> Instance(model, TRUE, ""), trace |-> << >>,
                    result |-> Returned(None)]
              ELSE [llm |-> NoLLM, trace |-> << >>,
                    result |-> Raise(Exc("OpenAIError", "api_key"))]
         ELSE IF model = ollama
         THEN [llm |-> Instance(model, FALSE, cfg.ollama_api_url),
               trace |-> << >>, result |-> Returned(None)]
         ELSE Unsupported(model)

(***************************************************************************)
(* LLM.generate_report: the prompt                                         *)
(***************************************************************************)
NEW_FEATURES == "[xin zeng gong neng]"   \* "新增功能"
IMPROVEMENTS == "[zhu yao gai jin]"      \* "主要改进"
FIXES == "[xiu fu wen ti]"               \* "修复问题"

required_sections == <<NEW_FEATURES, IMPROVEMENTS, FIXES>>

\* "\n警告：检测到输入结构不完整，请补充[新增功能]、[主要改进]、[修复问题]中的缺失部分"
validation_note ==
    <<"\nWARNING: input structure incomplete, please supply [", NEW_FEATURES,
      "], [", IMPROVEMENTS, "], [", FIXES, "] where missing">>

\* the f-string's literal text between {system_prompt} and the last slot
TemplateHead ==
    <<"\n        \n    [report rules]\n    1. required chapters: ",
      NEW_FEATURES, ", ", IMPROVEMENTS, ", ", FIXES,
      "\n    2. annotate each item ... 3. uncertain information ... 4. format ...",
      "\n\n    [input validation]\n    ">>
\* and after it
TemplateTail == <<"\n    ">>

\* `section in user_content`
In(section, text) == \E i \in DOMAIN text : text[i] = section

\* all(section in user_content for section in required_sections)
AllSections(user_content) ==
    \A k \in DOMAIN required_sections : In(required_sections[k], user_content)

ValidationSlot_any(user_content) ==
    IF ~ \E k \in DOMAIN required_sections : In(required_sections[k], user_content)
    THEN validation_note ELSE << >>

\* {validation_note if not all(...) else ""}
ValidationSlot(user_content) ==
    IF ~AllSections(user_content) THEN validation_note ELSE << >>

optimized_prompt(system_prompt, user_content) ==
    system_prompt \o TemplateHead \o ValidationSlot(user_content) \o TemplateTail

Messages_swapped(system_prompt, user_content) ==
    << [role |-> "user", content |-> user_content],
       [role |-> "system", content |-> optimized_prompt(system_prompt, user_content)] >>

Messages(system_prompt, user_content) ==
    << [role |-> "system", content |-> optimized_prompt(system_prompt, user_content)],
       [role |-> "user", content |-> user_content] >>

(***************************************************************************)
(* The two backends, as the environment of one call: what the hosted       *)
(* client's chat.completions.create and what requests.post produce.        *)
(***************************************************************************)
HostedRaises(e) == [raised |-> TRUE, exc |-> e]
HostedResponse(choices) == [raised |-> FALSE, choices |-> choices]

ChoiceContents == {JStr("Report body"), JNull}

\* sequences of at most n choice contents
RECURSIVE ChoiceSeqs(_)
ChoiceSeqs(n) ==
    IF n = 0 THEN {<< >>}
    ELSE LET shorter == ChoiceSeqs(n - 1) IN
         shorter \cup {Append(c, x) : c \in shorter, x \in ChoiceContents}

HostedOutcomes ==
    {HostedRaises(Exc("APIConnectionError", ""))}
        \cup {HostedResponse(c) : c \in ChoiceSeqs(MaxChoices)}

PostRaises(e) == [raised |-> TRUE, exc |-> e]
PostResponse(status, body) == [raised |-> FALSE, status |-> status, body |-> body]

NotJson == [t |-> "text"]
Message(m) == JDict([message |-> m])
Content(c) == JDict([content |-> c])

ResponseBodies ==
    { NotJson, JList, EmptyDict,
      JDict([error |-> JStr("model not found")]),
      Message(JNull), Message(JStr("Local report")),
      Message(EmptyDict),
      Message(Content(JNull)), Message(Content(JStr(""))),
      Message(Content(JStr("Local report"))),
      Message(Content(JNum(0))), Message(Content(JNum(7))) }

StatusCodes == {200, 404}

LocalOutcomes ==
    {PostRaises(Exc("ConnectionError", "")), PostRaises(Exc("Timeout", ""))}
        \cup {PostResponse(st, b) : st \in StatusCodes, b \in ResponseBodies}

Reply(out) == [ev |-> "reply", out |-> out]

(***************************************************************************)
(* LLM._generate_report_openai                                             *)
(***************************************************************************)
\* `except Exception as e: LOG.error(...); raise`
Caught(tr, e) == [trace |-> tr \o <<LogError>>, result |-> Raise(e)]

FirstChoice_last(response) ==
    IF Len(response.choices) = 0
    THEN Raised(Exc("IndexError", "list index out of range"))
    ELSE Ok(response.choices[Len(response.choices)])

\* response.choices[0].message.content
FirstChoice(response) ==
    IF Len(response.choices) = 0
    THEN Raised(Exc("IndexError", "list index out of range"))
    ELSE Ok(response.choices[1])

generate_report_openai(self, cfg, messages, hosted) ==
    LET request == [ev |-> "request", backend |-> openai,
                    model |-> cfg.openai_model_name, messages |-> messages]
        called == <<LogInfo, request, Reply(hosted)>>
    IN  IF hosted.raised
        THEN Caught(called, hosted.exc)
        ELSE LET content == FirstChoice(hosted) IN
             IF content.ok
             THEN [trace |-> called \o <<LogDebug>>, result |-> Returned(content.v)]
             ELSE Caught(called \o <<LogDebug>>, content.v)

(***************************************************************************)
(* LLM._generate_report_ollama                                             *)
(***************************************************************************)
InvalidStructure == Exc("ValueError", "invalid response structure")

\* response.json()
ParseJson(body) ==
    IF body.t = "text" THEN Raised(Exc("JSONDecodeError", "")) ELSE Ok(body)

generate_report_ollama(self, cfg, messages, local) ==
    LET request == [ev |-> "request", backend |-> ollama, url |-> self.api_url,
                    model |-> cfg.ollama_model_name, messages |-> messages,
                    max_tokens |-> 4000, temperature |-> "0.7", stream |-> FALSE]
        called == <<LogInfo, request, Reply(local)>>
    IN  IF local.raised
        THEN Caught(called, local.exc)
        ELSE LET response_data == ParseJson(local.body) IN
             IF ~response_data.ok
             THEN Caught(called, response_data.v)
             ELSE LET message == DictGet(response_data.v, "message", EmptyDict) IN
                  IF ~message.ok
                  THEN Caught(called \o <<LogDebug>>, message.v)
                  ELSE LET message_content == DictGet(message.v, "content", JNull) IN
                       IF ~message_content.ok
                       THEN Caught(called \o <<LogDebug>>, message_content.v)
                       ELSE IF Truthy(message_content.v)
                       THEN [trace |-> called \o <<LogDebug>>,
                             result |-> Returned(message_content.v)]
                       ELSE Caught(called \o <<LogDebug, LogError>>, InvalidStructure)

(***************************************************************************)
(* LLM.generate_report                                                     *)
(***************************************************************************)
UnsupportedModel == Exc("ValueError", "Unsupported model")

generate_report_fallback(self, cfg, system_prompt, user_content, hosted, local) ==
    LET messages == Messages(system_prompt, user_content)
        first == IF self.model = openai
                 THEN generate_report_openai(self, cfg, messages, hosted)
                 ELSE generate_report_ollama(self, cfg, messages, local)
        second == IF self.model = openai
                  THEN generate_report_ollama(self, cfg, messages, local)
                  ELSE generate_report_openai(self, cfg, messages, hosted)
    IN  IF first.result.kind = "return"
        THEN first
        ELSE [trace |-> first.trace \o second.trace, result |-> second.result]

generate_report(self, cfg, system_prompt, user_content, hosted, local) ==
    LET messages == Messages(system_prompt, user_content) IN
    IF self.model = openai
    THEN generate_report_openai(self, cfg, messages, hosted)
    ELSE IF self.model = ollama
    THEN generate_report_ollama(self, cfg, messages, local)
    ELSE [trace |-> << >>, result |-> Raise(UnsupportedModel)]

(***************************************************************************)
(* Callers.  "main" is a client of the facade that builds an LLM from the  *)
(* configuration it finds and calls generate_report on it (llm.py's        *)
(* __main__ block); "r1" and "r2" are two runs of the Gradio handlers,     *)
(* which Gradio executes on worker threads.                                *)
(***************************************************************************)
Handlers == {"r1", "r2"}
Callers == DOMAIN pc

NoArgs == [model_type |-> None, model_name |-> ""]
NoInput == [system_prompt |-> << >>, user_content |-> << >>]

SystemPrompts ==
    { <<"Summarize.">>,
      <<"Your specific system prompt for GitHub report generation">> }

\* user contents: a progress document with any of the three section labels
\* in it, in either order of the first two
UserContents ==
    { << >>,
      <<"# Progress\n- fix bug #1">>,
      <<"# Progress", NEW_FEATURES, "- a">>,
      <<IMPROVEMENTS>>,
      <<"# Progress", FIXES>>,
      <<NEW_FEATURES, "- a", IMPROVEMENTS, "- b">>,
      <<NEW_FEATURES, FIXES>>,
      <<IMPROVEMENTS, "- b", FIXES, "- c">>,
      <<"# Progress", NEW_FEATURES, "- a", IMPROVEMENTS, "- b", FIXES, "- c">>,
      <<FIXES, IMPROVEMENTS, NEW_FEATURES>> }

InitConfig(type) ==
    [llm_model_type |-> JStr(type), openai_model_name |-> "gpt-4o-mini",
     ollama_model_name |-> "llama3.1", ollama_api_url |-> ApiUrl]

InitCallers(callers, start) ==
    /\ args = [p \in callers |-> NoArgs]
    /\ pc = [p \in callers |-> start]
    /\ llm = [p \in callers |-> NoLLM]
    /\ ncalls = [p \in callers |-> 0]
    /\ input = [p \in callers |-> NoInput]
    /\ trace = [p \in callers |-> << >>]
    /\ result = [p \in callers |-> NoResult]

\* llm.py __main__: config = Config()
Init ==
    /\ \E type \in KindStrings : config = InitConfig(type)
    /\ InitCallers({"main"}, "LLM")

\* gradio_server.py module level: config = Config()
InitServer ==
    /\ config = InitConfig(openai)
    /\ InitCallers(Handlers, "idle")

(***************************************************************************)
(* llm = LLM(config)                                                       *)
(***************************************************************************)
Construct(p) ==
    /\ pc[p] = "LLM"
    /\ \E client \in ClientOutcomes :
         LET made == LLM_init(config, client) IN
         /\ llm' = [llm EXCEPT ![p] = made.llm]
         /\ trace' = [trace EXCEPT ![p] = made.trace]
         /\ result' = [result EXCEPT ![p] = made.result]
         /\ pc' = [pc EXCEPT ![p] = IF made.result.kind = "return"
                                    THEN "generate_report" ELSE "failed"]
    /\ UNCHANGED <<config, args, ncalls, input>>

(***************************************************************************)
(* llm.generate_report(system_prompt, user_content)                        *)
(***************************************************************************)
\* the reply of the backend that the instance's kind selects varies; a
\* backend of the other kind, were it contacted, answers DefaultHosted or
\* DefaultLocal
DefaultHosted == HostedResponse(<<JStr("Report body")>>)
DefaultLocal == PostResponse(200, Message(Content(JStr("Local report"))))

Call(p, system_prompt, user_content, hosted, local, next) ==
    LET done == generate_report(llm[p], config, system_prompt, user_content,
                                hosted, local) IN
    /\ input' = [input EXCEPT ![p] = [system_prompt |-> system_prompt,
                                       user_content |-> user_content]]
    /\ trace' = [trace EXCEPT ![p] = done.trace]
    /\ result' = [result EXCEPT ![p] = done.result]
    /\ ncalls' = [ncalls EXCEPT ![p] = @ + 1]
    /\ pc' = [pc EXCEPT ![p] = next]
    /\ UNCHANGED <<config, args, llm>>

GenerateReport(p) ==
    /\ pc[p] = "generate_report"
    /\ ncalls[p] < MaxCalls
    /\ \E system_prompt \in SystemPrompts, user_content \in UserContents :
         \/ /\ llm[p].model = openai
            /\ \E hosted \in HostedOutcomes :
                 Call(p, system_prompt, user_content, hosted, DefaultLocal,
                      "generate_report")
         \/ /\ llm[p].model # openai
            /\ \E local \in LocalOutcomes :
                 Call(p, system_prompt, user_content, DefaultHosted, local,
                      "generate_report")

Next ==
    \/ \E p \in Callers : Construct(p)
    \/ \E p \in Callers : GenerateReport(p)

Spec == Init /\ [][Next]_vars

(***************************************************************************)
(* gradio_server.py: generate_github_report / generate_hn_hour_topic       *)
(***************************************************************************)
\* the values of the model_type Radio: one of its two choices, or None while
\* nothing is selected (the Radio of the GitHub tab has no initial value)
RadioValues == {JStr(openai), JStr(ollama), None}

\* Gradio invokes the handler with the widgets' values
Click(r) ==
    /\ pc[r] = "idle"
    /\ \E model_type \in RadioValues, model_name \in ModelNames :
         args' = [args EXCEPT ![r] = [model_type |-> model_type,
                                      model_name |-> model_name]]
    /\ pc' = [pc EXCEPT ![r] = "set_type"]
    /\ UNCHANGED <<config, llm, ncalls, input, trace, result>>

\* config.llm_model_type = model_type
SetModelType(r) ==
    /\ pc[r] = "set_type"
    /\ config' = [config EXCEPT !.llm_model_type = args[r].model_type]
    /\ pc' = [pc EXCEPT ![r] = "set_name"]
    /\ UNCHANGED <<args, llm, ncalls, input, trace, result>>

\* if model_type == "openai": config.openai_model_name = model_name
\* else: config.ollama_model_name = model_name
SetModelName(r) ==
    /\ pc[r] = "set_name"
    /\ config' = IF args[r].model_type = JStr(openai)
                 THEN [config EXCEPT !.openai_model_name = args[r].model_name]
                 ELSE [config EXCEPT !.ollama_model_name = args[r].model_name]
    /\ pc' = [pc EXCEPT ![r] = "LLM"]
    /\ UNCHANGED <<args, llm, ncalls, input, trace, result>>

\* what the report generator hands to generate_report, and what the
\* backends answer, in the server
ServerPrompts == {<<"Summarize.">>}
ServerContents == {<<"# Progress\n- fix bug #1">>}
ServerHosted == {HostedRaises(Exc("APIConnectionError", "")), DefaultHosted}
ServerLocal == {PostRaises(Exc("ConnectionError", "")), DefaultLocal}

\* report_generator.generate_github_report(...) / generate_hn_topic_report(...)
Report(r) ==
    /\ pc[r] = "generate_report"
    /\ \E system_prompt \in ServerPrompts, user_content \in ServerContents,
          hosted \in ServerHosted, local \in ServerLocal :
         Call(r, system_prompt, user_content, hosted, local, "done")

NextServer ==
    \/ \E r \in Callers : Click(r)
    \/ \E r \in Callers : SetModelType(r)
    \/ \E r \in Callers : SetModelName(r)
    \/ \E r \in Callers : Construct(r)
    \/ \E r \in Callers : Report(r)

SpecServer == InitServer /\ [][NextServer]_vars

(***************************************************************************)
(* Properties.                                                             *)
(***************************************************************************)
\* caller p's last LLM operation was the constructor
AfterInit(p) == pc[p] \in {"generate_report", "failed"} /\ ncalls[p] = 0
\* caller p's last LLM operation was generate_report
AfterCall(p) == ncalls[p] > 0

\* what the backend answered in p's last call (defined when it was contacted)
IsReply(e) == e.ev = "reply"
Replies(tr) == SelectSeq(tr, IsReply)
WasAnswered(p) == Len(Replies(trace[p])) > 0
Answer(p) == Replies(trace[p])[1].out

\* text contains sub as a contiguous run of fragments
Contains(text, sub) ==
    \E i \in 0..Len(text) :
        /\ i + Len(sub) <= Len(text)
        /\ SubSeq(text, i + 1, i + Len(sub)) = sub

SectionLabels == {NEW_FEATURES, IMPROVEMENTS, FIXES}
LacksALabel(text) == \E l \in SectionLabels : \A i \in DOMAIN text : text[i] # l

(* C1, as stated: construction succeeds when config.llm_model_type is      *)
(* "openai" or "ollama", and for every other string it fails with the      *)
(* unsupported-type ValueError and yields no instance.                     *)
C1_ExactKinds ==
    \A p \in Callers :
        AfterInit(p) =>
            IF config.llm_model_type.s \in {openai, ollama}
            THEN result[p].kind = "return" /\ llm[p].live
            ELSE result[p] = Raise(UnsupportedType) /\ ~llm[p].live

(* C1, amended: construction fails with the unsupported-type ValueError,   *)
(* logged and yielding no instance, exactly when the lowercased type is    *)
(* neither                                                                 *)
(* "openai" nor "ollama"; a type that lowercases to "ollama" always yields *)
(* an ollama instance; a type that lowercases to "openai" yields an openai *)
(* instance unless OpenAI() raises, and then that exception propagates and *)
(* no instance exists.                                                     *)
C1_KindsUpToCase ==
    \A p \in Callers :
        AfterInit(p) =>
            LET kind == Lower(config.llm_model_type.s) IN
            /\ kind = ollama =>
                  result[p].kind = "return" /\ llm[p].live /\ llm[p].model = ollama
            /\ kind = openai =>
                  \/ result[p].kind = "return" /\ llm[p].live /\ llm[p].model = openai
                  \/ /\ result[p].kind = "raise" /\ ~llm[p].live
                     /\ result[p].value.type = "OpenAIError"
            /\ kind \notin {openai, ollama} =>
                  /\ result[p] = Raise(UnsupportedType) /\ ~llm[p].live
                  /\ Len(ErrorLogs(trace[p])) = 1

C1_MixedCaseConstructed ==
    \E p \in Callers :
        /\ AfterInit(p)
        /\ config.llm_model_type = JStr(OpenAI)
        /\ result[p].kind = "return" /\ llm[p].live

(* C2: every backend request issued for a handler run goes to the backend  *)
(* kind the run was called with and carries the model name the run was     *)
(* called with.                                                            *)
C2_RequestIsolation ==
    \A r \in Callers :
        \A i \in DOMAIN trace[r] :
            IsRequest(trace[r][i]) =>
                /\ JStr(trace[r][i].backend) = args[r].model_type
                /\ trace[r][i].model = args[r].model_name

\* the JSON object has a message object with a content field
HasContentField(body) ==
    /\ "message" \in DOMAIN body.f
    /\ body.f["message"].t = "dict"
    /\ "content" \in DOMAIN body.f["message"].f

ContentField(body) == body.f["message"].f["content"]

(* C3: for the ollama backend and a 2xx response that parses to a JSON     *)
(* object, if message.content is absent or empty the call raises the       *)
(* invalid-structure ValueError, and if it is a non-empty string the call  *)
(* returns exactly that string.                                            *)
C3_ContentOrMalformed ==
    \A p \in Callers :
        (AfterCall(p) /\ llm[p].model = ollama /\ WasAnswered(p)
            /\ ~Answer(p).raised /\ Answer(p).status \in 200..299
            /\ Answer(p).body.t = "dict") =>
            LET body == Answer(p).body IN
            IF HasContentField(body) /\ ContentField(body).t = "str"
                /\ ContentField(body).s # ""
            THEN result[p] = Returned(ContentField(body))
            ELSE (~HasContentField(body) \/ ContentField(body).t \in {"str", "null"})
                    => result[p] = Raise(InvalidStructure)

(* C4: for the ollama backend, when the POST raises or its response has a  *)
(* non-2xx status, the call ends with an error that is not the             *)
(* invalid-structure error, and returns nothing.                           *)
C4_TransportFailureFails ==
    \A p \in Callers :
        (AfterCall(p) /\ llm[p].model = ollama /\ WasAnswered(p)
            /\ (Answer(p).raised \/ Answer(p).status \notin 200..299)) =>
            /\ result[p].kind = "raise"
            /\ result[p].value # InvalidStructure

(* C5: a generate_report call issues at most one backend request, and it   *)
(* goes to the backend selected at construction, also when the call fails. *)
C5_SingleRequest ==
    \A p \in Callers :
        AfterCall(p) =>
            /\ Len(Requests(trace[p])) <= 1
            /\ \A i \in DOMAIN trace[p] :
                  IsRequest(trace[p][i]) => trace[p][i].backend = llm[p].model

C5_FailedAfterOneRequest ==
    \E p \in Callers :
        /\ AfterCall(p)
        /\ result[p].kind = "raise"
        /\ Len(Requests(trace[p])) = 1
        /\ llm[p].model = openai

(* C6: every construction or generate_report call that ends with an error  *)
(* has logged an error before the error reaches the caller.                *)
C6_FailuresLogged ==
    \A p \in Callers :
        result[p].kind = "raise" => Len(ErrorLogs(trace[p])) >= 1

\* the system message of the one request of p's last call
SentMessages(p) == Requests(trace[p])[1].messages

(* C7: the system prompt sent to the backend contains the validation       *)
(* warning exactly when user_content lacks one of the three section labels.*)
C7_WarningIffIncomplete ==
    \A p \in Callers :
        (AfterCall(p) /\ Len(Requests(trace[p])) > 0) =>
            (Contains(SentMessages(p)[1].content, validation_note)
                <=> LacksALabel(input[p].user_content))

C7_CompleteInputNoWarning ==
    \E p \in Callers :
        /\ AfterCall(p) /\ Len(Requests(trace[p])) > 0
        /\ ~LacksALabel(input[p].user_content)
        /\ ~Contains(SentMessages(p)[1].content, validation_note)

(* C8: with the hosted backend, when the provider call returns a response, *)
(* generate_report returns exactly the content of its first choice.        *)
C8_FirstChoiceUnmodified ==
    \A p \in Callers :
        (AfterCall(p) /\ llm[p].model = openai /\ WasAnswered(p)
            /\ ~Answer(p).raised /\ Len(Answer(p).choices) > 0) =>
            result[p] = Returned(Answer(p).choices[1])

C8_ReturnedFirstOfTwo ==
    \E p \in Callers :
        /\ AfterCall(p) /\ llm[p].model = openai /\ WasAnswered(p)
        /\ ~Answer(p).raised
        /\ Answer(p).choices = <<JStr("Report body"), JNull>>
        /\ result[p] = Returned(JStr("Report body"))

(* C9: every exchange handed to a backend is exactly two messages, system  *)
(* then user; the system content is the caller's system_prompt followed by *)
(* the fixed template (whose last slot is empty or holds the validation    *)
(* warning), and the user content is the caller's user_content.            *)
C9_TwoMessagesInOrder ==
    \A p \in Callers :
        \A i \in DOMAIN trace[p] :
            IsRequest(trace[p][i]) =>
                LET messages == trace[p][i].messages IN
                /\ Len(messages) = 2
                /\ messages[1].role = "system"
                /\ messages[2].role = "user"
                /\ \E slot \in {<< >>, validation_note} :
                      messages[1].content =
                          input[p].system_prompt \o TemplateHead \o slot \o TemplateTail
                /\ messages[2].content = input[p].user_content

C9_ExchangeSentToOllama ==
    \E p \in Callers :
        /\ AfterCall(p) /\ llm[p].model = ollama
        /\ Len(Requests(trace[p])) = 1
        /\ input[p].user_content # << >>
        /\ SentMessages(p)[2].content = input[p].user_content

(* C10: a constructed instance's kind is "openai" or "ollama" for as long  *)
(* as it is used, and generate_report never fails with the                 *)
(* unsupported-model error.                                                *)
C10_KindFixedAtConstruction ==
    \A p \in Callers :
        /\ llm[p].live => llm[p].model \in {openai, ollama}
        /\ AfterCall(p) => result[p] # Raise(UnsupportedModel)

C10_CalledRepeatedly ==
    \E p \in Callers :
        /\ llm[p].live
        /\ ncalls[p] >= MaxCalls
        /\ config.llm_model_type = JStr(OLLAMA)

====
